---- MODULE Spec2Model ----
(***************************************************************************)
(* Model of src/insurance.py: the Estimator (normal-approximation sizing   *)
(* of a Bernoulli insurance pool) and the InsurancePool ledger.            *)
(*                                                                         *)
(* Floating-point values are modelled as decimal fixed-point numbers: a    *)
(* finite value is an integer count of 1/Scale units, every operation      *)
(* rounds its result to the nearest unit, and the IEEE special values      *)
(* (NaN, the two infinities, negative zero) are kept, because numpy        *)
(* arithmetic returns them where plain Python would raise.                 *)
(***************************************************************************)
EXTENDS Integers, Sequences, FiniteSets, TLC

\* Units per 1.0 of the fixed-point stand-in for float64.
Scale == 1000

\* Bound on the number of pool calls in one run.
MaxCalls == 7

-----------------------------------------------------------------------------
(* Float values *)

Num(x) == [kind |-> "num", v |-> x]
NegZero == [kind |-> "negzero", v |-> 0]
NaN == [kind |-> "nan", v |-> 0]
PosInf == [kind |-> "inf", v |-> 1]
NegInf == [kind |-> "inf", v |-> -1]
None == [kind |-> "none", v |-> 0]

FromInt(i) == Num(i * Scale)
One == FromInt(1)
Zero == Num(0)

IsNaN(x) == x.kind = "nan"
IsInf(x) == x.kind = "inf"
IsFinite(x) == x.kind \in {"num", "negzero"}
IsZero(x) == IsFinite(x) /\ x.v = 0

\* -1 or 1: the sign bit of a float (negative zero is negative).
Sign(x) == IF x.kind = "negzero" \/ x.v < 0 THEN -1 ELSE 1

SignedZero(s) == IF s < 0 THEN NegZero ELSE Zero
SignedInf(s) == IF s < 0 THEN NegInf ELSE PosInf

\* a/b for b > 0, rounded to the nearest integer (halves upwards).
RoundDiv(a, b) == IF 2 * (a % b) >= b THEN (a \div b) + 1 ELSE a \div b

Abs(i) == IF i < 0 THEN -i ELSE i

\* A finite result with magnitude m >= 0 and sign s.
Finite(s, m) == IF m = 0 THEN SignedZero(s) ELSE Num(s * m)

\* The magnitude of a product or quotient a/b of magnitudes: float64 does not
\* underflow at the magnitudes met here, so a nonzero result stays nonzero.
Magnitude(a, b) == IF a = 0 THEN 0 ELSE IF RoundDiv(a, b) = 0 THEN 1 ELSE RoundDiv(a, b)

FNeg(x) ==
  IF IsNaN(x) THEN NaN
  ELSE IF IsInf(x) THEN SignedInf(-x.v)
  ELSE Finite(-Sign(x), Abs(x.v))

FAdd(x, y) ==
  IF IsNaN(x) \/ IsNaN(y) THEN NaN
  ELSE IF IsInf(x) /\ IsInf(y) THEN (IF x.v = y.v THEN x ELSE NaN)
  ELSE IF IsInf(x) THEN x
  ELSE IF IsInf(y) THEN y
  ELSE IF x.v + y.v = 0
       THEN (IF Sign(x) < 0 /\ Sign(y) < 0 /\ IsZero(x) THEN NegZero ELSE Zero)
       ELSE Num(x.v + y.v)

FSub(x, y) == FAdd(x, FNeg(y))

FMul(x, y) ==
  IF IsNaN(x) \/ IsNaN(y) THEN NaN
  ELSE IF IsInf(x) \/ IsInf(y)
       THEN (IF IsZero(x) \/ IsZero(y) THEN NaN ELSE SignedInf(Sign(x) * Sign(y)))
  ELSE Finite(Sign(x) * Sign(y), Magnitude(Abs(x.v) * Abs(y.v), Scale))

\* numpy float64 division: a zero divisor gives NaN or an infinity, no error.
FDiv(x, y) ==
  IF IsNaN(x) \/ IsNaN(y) THEN NaN
  ELSE IF IsInf(x) THEN (IF IsInf(y) THEN NaN ELSE SignedInf(Sign(x) * Sign(y)))
  ELSE IF IsInf(y) THEN SignedZero(Sign(x) * Sign(y))
  ELSE IF IsZero(y) THEN (IF IsZero(x) THEN NaN ELSE SignedInf(Sign(x) * Sign(y)))
  ELSE Finite(Sign(x) * Sign(y), Magnitude(Abs(x.v) * Scale, Abs(y.v)))

RECURSIVE SqrtSearch(_, _, _)
\* The largest r in lo..hi with r*r <= x (lo*lo <= x < (hi+1)*(hi+1)).
SqrtSearch(x, lo, hi) ==
  IF lo >= hi THEN lo
  ELSE LET mid == (lo + hi + 1) \div 2
       IN IF mid * mid <= x THEN SqrtSearch(x, mid, hi) ELSE SqrtSearch(x, lo, mid - 1)

\* The integer nearest to the square root of x >= 0.
ISqrt(x) ==
  LET r == SqrtSearch(x, 0, 40000)
  IN IF x - r * r > r THEN r + 1 ELSE r

\* numpy.sqrt: NaN for a negative argument, no error.
FSqrt(x) ==
  IF IsNaN(x) THEN NaN
  ELSE IF IsInf(x) THEN (IF x.v > 0 THEN PosInf ELSE NaN)
  ELSE IF x.v < 0 THEN NaN
  ELSE IF x.v = 0 THEN x
  ELSE Num(ISqrt(x.v * Scale))

\* Rounding down where the code rounds up.
FFloor(x) ==
  IF ~IsFinite(x) THEN x
  ELSE LET c == (x.v \div Scale) * Scale
       IN IF c = 0 THEN SignedZero(Sign(x)) ELSE Num(c)

\* numpy.ceil: the result stays a float; ceil of a value in (-1, 0) is -0.0.
FCeil(x) ==
  IF ~IsFinite(x) THEN x
  ELSE LET c == -((-x.v) \div Scale) * Scale
       IN IF c = 0 THEN SignedZero(Sign(x)) ELSE Num(c)

\* x < y as Python compares floats: false whenever a NaN is involved.
FLt(x, y) ==
  IF IsNaN(x) \/ IsNaN(y) THEN FALSE
  ELSE IF IsInf(x) THEN x.v < 0 /\ ~(IsInf(y) /\ y.v < 0)
  ELSE IF IsInf(y) THEN y.v > 0
  ELSE x.v < y.v

\* x >= y as Python compares floats.
FGe(x, y) == ~IsNaN(x) /\ ~IsNaN(y) /\ ~FLt(x, y)

\* Python truthiness of an optional number: None, 0.0 and -0.0 are false.
Truthy(x) == x.kind # "none" /\ ~IsZero(x)

-----------------------------------------------------------------------------
(* Estimator *)

\* pi as passed by InsurancePool.issue (the default of Estimator.__init__),
\* in units of 1/10000.
PiDefault == 9999

\* scipy.stats.norm.ppf, tabulated at the confidence levels the model uses
\* (pi in units of 1/10000, the quantile rounded to 1/Scale).
NormPpf(pi) ==
  CASE pi = 9999 -> Num(3719)
    [] pi = 9750 -> Num(1960)
    [] pi = 5000 -> Zero
    [] pi = 2500 -> Num(-674)
    [] pi = 1000 -> Num(-1282)

\* Estimator.__init__ up to the call of __calculate: the inputs are stored.
EstimatorInit(p, n, pi, P, P0) ==
  [stage |-> "init", raised |-> FALSE, n |-> n, p |-> p, pi |-> pi,
   P |-> P, P0 |-> P0, mu |-> None, sigma |-> None, z |-> None, k |-> None,
   r |-> None, L |-> None]

\* __calculate with a guard that raises for an empty population.
CalculateGuarded(e) ==
  LET mu    == FMul(e.n, e.p)
      sigma == FSqrt(FMul(FMul(e.n, e.p), FSub(One, e.p)))
      z     == NormPpf(e.pi)
      k     == FCeil(FAdd(mu, FMul(z, sigma)))
      c     == [e EXCEPT !.stage = "done", !.mu = mu, !.sigma = sigma,
                         !.z = z, !.k = k]
  IN IF IsZero(e.n) \/ IsZero(k)
     THEN [c EXCEPT !.raised = TRUE]
     ELSE IF Truthy(e.P)
     THEN LET P0 == FMul(FDiv(k, e.n), e.P)
          IN [c EXCEPT !.P0 = P0, !.r = FDiv(e.P, P0), !.L = FMul(e.n, e.P)]
     ELSE IF Truthy(e.P0)
     THEN LET P == FMul(FDiv(e.n, k), e.P0)
          IN [c EXCEPT !.P = P, !.r = FDiv(P, e.P0), !.L = FMul(e.n, P)]
     ELSE [c EXCEPT !.raised = TRUE]

\* __calculate deriving the payout from a premium with the ratio upside down.
CalculateInverted(e) ==
  LET mu    == FMul(e.n, e.p)
      sigma == FSqrt(FMul(FMul(e.n, e.p), FSub(One, e.p)))
      z     == NormPpf(e.pi)
      k     == FCeil(FAdd(mu, FMul(z, sigma)))
      c     == [e EXCEPT !.stage = "done", !.mu = mu, !.sigma = sigma,
                         !.z = z, !.k = k]
  IN IF Truthy(e.P)
     THEN LET P0 == FMul(FDiv(k, e.n), e.P)
          IN [c EXCEPT !.P0 = P0, !.r = FDiv(e.P, P0), !.L = FMul(e.n, e.P)]
     ELSE IF Truthy(e.P0)
     THEN LET P == FMul(FDiv(k, e.n), e.P0)
          IN [c EXCEPT !.P = P, !.r = FDiv(P, e.P0), !.L = FMul(e.n, P)]
     ELSE [c EXCEPT !.raised = TRUE]

\* Estimator.__calculate applied to a constructed object e.
Calculate(e) ==
  LET mu    == FMul(e.n, e.p)
      sigma == FSqrt(FMul(FMul(e.n, e.p), FSub(One, e.p)))
      z     == NormPpf(e.pi)
      k     == FCeil(FAdd(mu, FMul(z, sigma)))
      c     == [e EXCEPT !.stage = "done", !.mu = mu, !.sigma = sigma,
                         !.z = z, !.k = k]
  IN IF Truthy(e.P)
     THEN LET P0 == FMul(FDiv(k, e.n), e.P)
          IN [c EXCEPT !.P0 = P0, !.r = FDiv(e.P, P0), !.L = FMul(e.n, e.P)]
     ELSE IF Truthy(e.P0)
     THEN LET P == FMul(FDiv(e.n, k), e.P0)
          IN [c EXCEPT !.P = P, !.r = FDiv(P, e.P0), !.L = FMul(e.n, P)]
     ELSE [c EXCEPT !.raised = TRUE]

\* Estimator(p, n=n, pi=pi, P=P, P0=P0)
Estimator(p, n, pi, P, P0) == Calculate(EstimatorInit(p, n, pi, P, P0))

-----------------------------------------------------------------------------
(* InsurancePool *)

VARIABLES
  n,        \* self.n: active policies
  p,        \* self.p: probability of the insurable event
  P,        \* self.P: payout
  L,        \* self.L: liability
  cap,      \* self.cap: capital
  claims,   \* self.claims
  issued,   \* self.issued
  inbound,  \* self.inbound: premiums collected
  seed,     \* the seed argument of the constructor
  raised,   \* how the last call ended: "none" or the exception it raised
  hist,     \* the calls made so far, oldest first
  rec,      \* the record printed by the last issue() that got to print
  insolvent,\* some claim() has raised the insolvency exception
  misused,  \* some claim() or expire() was called with no active policy
  args,     \* the constructor arguments of est
  est,      \* an Estimator object under construction or constructed
  est2      \* the Estimator constructed from est's premium (round trip)

poolVars == <<n, p, P, L, cap, claims, issued, inbound, seed, raised, hist, rec,
              insolvent, misused>>
estVars == <<args, est, est2>>
vars == <<n, p, P, L, cap, claims, issued, inbound, seed, raised, hist, rec,
          insolvent, misused, args, est, est2>>

NoRec == [printed |-> FALSE, premium |-> None, requiredK |-> None,
          effectiveK |-> None, excess |-> None]
NoArgs == [p |-> None, n |-> None, pi |-> PiDefault, P |-> None, P0 |-> None]
NoEst == EstimatorInit(None, None, PiDefault, None, None)

\* Constructor arguments tried.
Probabilities == {Num(10), Num(50)}
Payouts == {FromInt(1), FromInt(2)}
Seeds == {FromInt(0), FromInt(1), FromInt(2), FromInt(3)}

\* A constructor that drops the seed capital.
PoolInitWithoutSeed(p0, P0, s) ==
  /\ n = 0
  /\ p = p0
  /\ P = P0
  /\ L = Zero
  /\ cap = Zero
  /\ claims = 0
  /\ issued = 0
  /\ inbound = Zero
  /\ seed = s
  /\ raised = "none"
  /\ hist = <<>>
  /\ rec = NoRec
  /\ insolvent = FALSE
  /\ misused = FALSE

\* InsurancePool(p, P, seed=s)
PoolInit(p0, P0, s) ==
  /\ n = 0
  /\ p = p0
  /\ P = P0
  /\ L = Zero
  /\ cap = s
  /\ claims = 0
  /\ issued = 0
  /\ inbound = Zero
  /\ seed = s
  /\ raised = "none"
  /\ hist = <<>>
  /\ rec = NoRec
  /\ insolvent = FALSE
  /\ misused = FALSE

Init ==
  /\ \E p0 \in Probabilities, P0 \in Payouts, s \in Seeds : PoolInit(p0, P0, s)
  /\ args = NoArgs
  /\ est = NoEst
  /\ est2 = NoEst

\* "%d" % x raises for NaN (ValueError) and for an infinity (OverflowError).
FormatsAsInt(x) == IsFinite(x)

\* issue() with the premium sized on the active-policy count instead of on
\* the effective capacity.
IssueOnActiveCount ==
  /\ Len(hist) < MaxCalls
  /\ LET n1        == n + 1
         eff_k     == FDiv(cap, P)
         def_est   == Estimator(p, FromInt(n1), PiDefault, P, None)
         estimator == def_est
         cap1      == FAdd(cap, estimator.P0)
         excess    == FSub(cap1, FMul(estimator.k, P))
     IN /\ n' = n1
        /\ issued' = issued + 1
        /\ hist' = Append(hist, "issue")
        /\ IF def_est.raised \/ estimator.raised
           THEN /\ raised' = "config"
                /\ UNCHANGED <<cap, inbound, rec, L>>
           ELSE /\ cap' = cap1
                /\ inbound' = FAdd(inbound, estimator.P0)
                /\ IF FormatsAsInt(def_est.k) /\ FormatsAsInt(eff_k)
                   THEN /\ rec' = [printed |-> TRUE, premium |-> estimator.P0,
                                   requiredK |-> def_est.k, effectiveK |-> eff_k,
                                   excess |-> excess]
                        /\ L' = FMul(FromInt(n1), P)
                        /\ raised' = "none"
                   ELSE /\ raised' = "format"
                        /\ UNCHANGED <<rec, L>>
  /\ UNCHANGED <<p, P, claims, seed, insolvent, misused, estVars>>

\* InsurancePool.issue
Issue ==
  /\ Len(hist) < MaxCalls
  /\ LET n1        == n + 1
         eff_k     == FDiv(cap, P)
         def_est   == Estimator(p, FromInt(n1), PiDefault, P, None)
         estimator == Estimator(p, eff_k, PiDefault, P, None)
         cap1      == FAdd(cap, estimator.P0)
         excess    == FSub(cap1, FMul(estimator.k, P))
     IN /\ n' = n1
        /\ issued' = issued + 1
        /\ hist' = Append(hist, "issue")
        /\ IF def_est.raised \/ estimator.raised
           THEN /\ raised' = "config"
                /\ UNCHANGED <<cap, inbound, rec, L>>
           ELSE /\ cap' = cap1
                /\ inbound' = FAdd(inbound, estimator.P0)
                /\ IF FormatsAsInt(def_est.k) /\ FormatsAsInt(eff_k)
                   THEN /\ rec' = [printed |-> TRUE, premium |-> estimator.P0,
                                   requiredK |-> def_est.k, effectiveK |-> eff_k,
                                   excess |-> excess]
                        /\ L' = FMul(FromInt(n1), P)
                        /\ raised' = "none"
                   ELSE /\ raised' = "format"
                        /\ UNCHANGED <<rec, L>>
  /\ UNCHANGED <<p, P, claims, seed, insolvent, misused, estVars>>

\* claim() with the solvency test off by one (<= for <).
ClaimStrict ==
  /\ Len(hist) < MaxCalls
  /\ n' = n - 1
  /\ cap' = FSub(cap, P)
  /\ claims' = claims + 1
  /\ raised' = IF ~FGe(cap', Zero) \/ IsZero(cap') THEN "insolvent" ELSE "none"
  /\ hist' = Append(hist, "claim")
  /\ insolvent' = (insolvent \/ raised' = "insolvent")
  /\ misused' = (misused \/ n <= 0)
  /\ UNCHANGED <<p, P, L, issued, inbound, seed, rec, estVars>>

\* claim() booking the payout against the premiums collected as well.
ClaimBookedOnInbound ==
  /\ Len(hist) < MaxCalls
  /\ n' = n - 1
  /\ cap' = FSub(cap, P)
  /\ inbound' = FSub(inbound, P)
  /\ claims' = claims + 1
  /\ raised' = IF FLt(cap', Zero) THEN "insolvent" ELSE "none"
  /\ hist' = Append(hist, "claim")
  /\ insolvent' = (insolvent \/ FLt(cap', Zero))
  /\ misused' = (misused \/ n <= 0)
  /\ UNCHANGED <<p, P, L, issued, seed, rec, estVars>>

\* claim() testing solvency first and leaving the ledger alone when it fails.
ClaimRolledBack ==
  /\ Len(hist) < MaxCalls
  /\ IF FLt(FSub(cap, P), Zero)
     THEN /\ raised' = "insolvent"
          /\ UNCHANGED <<n, cap, claims>>
     ELSE /\ raised' = "none"
          /\ n' = n - 1
          /\ cap' = FSub(cap, P)
          /\ claims' = claims + 1
  /\ hist' = Append(hist, "claim")
  /\ insolvent' = (insolvent \/ raised' = "insolvent")
  /\ misused' = (misused \/ n <= 0)
  /\ UNCHANGED <<p, P, L, issued, inbound, seed, rec, estVars>>

\* InsurancePool.claim
Claim ==
  /\ Len(hist) < MaxCalls
  /\ n' = n - 1
  /\ cap' = FSub(cap, P)
  /\ claims' = claims + 1
  /\ raised' = IF FLt(cap', Zero) THEN "insolvent" ELSE "none"
  /\ hist' = Append(hist, "claim")
  /\ insolvent' = (insolvent \/ FLt(cap', Zero))
  /\ misused' = (misused \/ n <= 0)
  /\ UNCHANGED <<p, P, L, issued, inbound, seed, rec, estVars>>

\* expire() lowering the liability but not the policy count.
ExpireKeepsCount ==
  /\ Len(hist) < MaxCalls
  /\ n' = n
  /\ L' = FSub(L, P)
  /\ raised' = "none"
  /\ hist' = Append(hist, "expire")
  /\ misused' = (misused \/ n <= 0)
  /\ UNCHANGED <<p, P, cap, claims, issued, inbound, seed, rec, insolvent, estVars>>

\* InsurancePool.expire
Expire ==
  /\ Len(hist) < MaxCalls
  /\ n' = n - 1
  /\ L' = FSub(L, P)
  /\ raised' = "none"
  /\ hist' = Append(hist, "expire")
  /\ misused' = (misused \/ n <= 0)
  /\ UNCHANGED <<p, P, cap, claims, issued, inbound, seed, rec, insolvent, estVars>>

Next == Issue \/ Claim \/ Expire

Spec == Init /\ [][Next]_vars

-----------------------------------------------------------------------------
(* The Estimator on its own: constructed with arguments drawn from small   *)
(* sets, then calculated.                                                  *)

EstProbabilities == {Num(10), Num(50), Num(500)}
EstPopulations == {FromInt(-1), FromInt(0), Num(500), FromInt(1), Num(2500),
                   FromInt(4), FromInt(10)}
EstConfidences == {1000, 2500, 5000, 9750, 9999}
EstPayouts == {None, Zero, FromInt(1), FromInt(100)}
EstPremiums == {None, Zero, Num(400), FromInt(4)}

\* Estimator.__init__: the arguments are stored on the object.
EstInit ==
  /\ PoolInit(Num(50), FromInt(1), FromInt(1))
  /\ \E p0 \in EstProbabilities, n0 \in EstPopulations, pi0 \in EstConfidences,
        P0 \in EstPayouts, Q0 \in EstPremiums :
        /\ args = [p |-> p0, n |-> n0, pi |-> pi0, P |-> P0, P0 |-> Q0]
        /\ est = EstimatorInit(p0, n0, pi0, P0, Q0)
  /\ est2 = NoEst

\* Estimator.__init__ calls __calculate.
EstCalculate ==
  /\ est.stage = "init"
  /\ est' = Calculate(est)
  /\ UNCHANGED <<poolVars, args, est2>>

\* The premium of an estimate made for a fixed payout is fed back:
\* Estimator(p, n=n, pi=pi, P0=est.P0).
EstRoundTrip ==
  /\ est.stage = "done"
  /\ est2.stage = "init"
  /\ ~est.raised
  /\ Truthy(args.P)
  /\ est2' = Estimator(args.p, args.n, args.pi, None, est.P0)
  /\ UNCHANGED <<poolVars, args, est>>

EstNext == EstCalculate \/ EstRoundTrip

SpecEst == EstInit /\ [][EstNext]_vars

-----------------------------------------------------------------------------
(* Properties of the pool, checked under Spec *)

Last(h) == h[Len(h)]
IssueStep == hist' = Append(hist, "issue")
ClaimStep == hist' = Append(hist, "claim")
ExpireStep == hist' = Append(hist, "expire")

\* C1: in any run of calls that raised no insolvency error (claim() and
\* expire() called only with an active policy, the capital a number >= 0),
\* the stored liability is exactly n*P after every call.
C1_LiabilityIsNTimesP ==
  (~insolvent /\ ~misused /\ raised = "none" /\ FGe(cap, Zero))
    => L = FMul(FromInt(n), P)

\* C2: for a pool with seed >= 0, cap >= 0 after every call that completes
\* without raising (in a run that kept the preconditions and met no
\* insolvency).
C2_CapNonNegative ==
  (hist # <<>> /\ raised = "none" /\ ~insolvent /\ ~misused) => FGe(cap, Zero)

\* C3: claim() raises the insolvency error exactly when cap < P before the
\* call, and completes without error otherwise.
C3_ClaimFailsIffCapBelowP ==
  [][ClaimStep => raised' = (IF FLt(cap, P) THEN "insolvent" ELSE "none")]_vars

\* A claim on a policy-holding pool has raised the insolvency error.
C3_Witness ==
  hist # <<>> /\ Last(hist) = "claim" /\ raised = "insolvent" /\ ~misused

\* C4: once a claim() has raised the insolvency error, every later call
\* fails and the pool never has cap >= 0 again.
C4_InsolventIsTerminal ==
  [][(insolvent /\ ~misused') => (raised' # "none" /\ ~FGe(cap', Zero))]_vars

\* C5: with seed = 0 and P > 0, issue() then claim() ends with cap negative
\* and the claim() raising the insolvency error.
C5_SeedZeroIssueThenClaim ==
  (seed = Zero /\ hist = <<"issue", "claim">>)
    => (raised = "insolvent" /\ FLt(cap, Zero))

\* The premium (k/c)*P of the estimate for population c = cap/P.
PremiumForCapacity ==
  LET c == FDiv(cap, P)
      k == Estimator(p, c, PiDefault, P, None).k
  IN FMul(FDiv(k, c), P)

\* C6: issue() adds 1 to n and to issued, and adds one and the same premium
\* to cap and to inbound: the estimator's premium for population cap/P, cap
\* taken before the call.
C6_IssueAddsPremiumForCapacity ==
  [][IssueStep => /\ n' = n + 1
                  /\ issued' = issued + 1
                  /\ cap' = FAdd(cap, PremiumForCapacity)
                  /\ inbound' = FAdd(inbound, PremiumForCapacity)]_vars

\* An issue() has charged a premium that differs from the one the estimate
\* for the active-policy count gives.
C6_Witness ==
  /\ hist # <<>> /\ Last(hist) = "issue" /\ raised = "none"
  /\ IsFinite(rec.premium) /\ rec.premium.v > 0
  /\ rec.premium # Estimator(p, FromInt(n), PiDefault, P, None).P0

\* C7: issue() on an Active pool (cap >= 0, P > 0, n >= 0) raises nothing,
\* also when cap = 0.
C7_IssueAlwaysSucceeds ==
  [][(IssueStep /\ FGe(cap, Zero) /\ n >= 0) => raised' = "none"]_vars

\* An issue() on a pool without capital has completed.
C7_Witness == hist = <<"issue">> /\ seed = Zero /\ raised = "none"

-----------------------------------------------------------------------------
(* Properties of the Estimator, checked under SpecEst *)

Given(x) == x # None
Positive(x) == IsFinite(x) /\ x.v > 0

\* Exactly one of P and P0 is passed, and it is positive.
OneOfPayoutAndPremium ==
  \/ Positive(args.P) /\ ~Given(args.P0)
  \/ Positive(args.P0) /\ ~Given(args.P)

\* C8: the estimator raises when the population is 0 or the computed k is 0
\* (the other arguments being valid, pi the default).
C8_DomainErrorOnZero ==
  (/\ est.stage = "done"
   /\ args.pi = PiDefault
   /\ OneOfPayoutAndPremium
   /\ IsZero(est.n) \/ IsZero(est.k))
    => est.raised

\* C9: the estimator is rejected exactly when both or neither of P and P0
\* are given (the given ones being positive, for a population n > 0 and the
\* default pi).
C9_ExactlyOneOfPayoutAndPremium ==
  (/\ est.stage = "done"
   /\ args.pi = PiDefault
   /\ Positive(args.n)
   /\ Given(args.P) => Positive(args.P)
   /\ Given(args.P0) => Positive(args.P0))
    => (est.raised <=> (Given(args.P) <=> Given(args.P0)))

\* The least integer j with j*Scale >= v.
IntCeil(v) == CHOOSE j \in -100..100 : j * Scale >= v /\ (j - 1) * Scale < v

\* n*p + z*sqrt(n*p*(1-p)) for the arguments of est.
Quantile ==
  FAdd(FMul(args.n, args.p),
       FMul(NormPpf(args.pi), FSqrt(FMul(FMul(args.n, args.p), FSub(One, args.p)))))

\* k is the integer ceiling of Quantile.
KIsCeiling ==
  /\ IsFinite(est.k)
  /\ est.k.v % Scale = 0
  /\ est.k.v >= Quantile.v
  /\ est.k.v - Scale < Quantile.v

KAtLeastExpectedClaims == est.k.v >= IntCeil(FMul(args.n, args.p).v) * Scale

ValidFixedPayout ==
  /\ est.stage = "done"
  /\ Positive(args.n)
  /\ Positive(args.P)

\* C10 as stated: for every pi in (0,1), k = ceil(n*p + z*sqrt(n*p*(1-p)))
\* and k >= ceil(n*p).
C10_KCeilingAnyConfidence ==
  ValidFixedPayout => (KIsCeiling /\ KAtLeastExpectedClaims)

\* C10 amended: k = ceil(n*p + z*sqrt(n*p*(1-p))) for every pi in (0,1), and
\* k >= ceil(n*p) for pi >= 0.5.
C10_KCeilingHighConfidence ==
  ValidFixedPayout => (KIsCeiling /\ (args.pi >= 5000 => KAtLeastExpectedClaims))

\* An estimate at pi > 0.5 whose k exceeds the expected number of claims.
C10_Witness ==
  /\ ValidFixedPayout
  /\ args.pi > 5000
  /\ est.k.v > IntCeil(FMul(args.n, args.p).v) * Scale

\* The rounding the four operations of a round trip may add up to, in units
\* of 1/Scale: one unit for each of k/n, (k/n)*P, n/k and (n/k)*P0, each
\* multiplied by what it is multiplied with afterwards.
RoundTripTolerance ==
  LET a  == IntCeil(Abs(FDiv(est.k, args.n).v))
      b  == IntCeil(Abs(FDiv(args.n, est.k).v))
      pp == IntCeil(Abs(args.P.v))
  IN b * (pp + 1) + a * pp + 1

RoundTripDone ==
  /\ est2.stage = "done"
  /\ Positive(args.n)
  /\ Positive(args.P)
  /\ ~Given(args.P0)

RoundTripReproduces ==
  /\ ~est2.raised
  /\ IsFinite(est2.P)
  /\ Abs(est2.P.v - args.P.v) <= RoundTripTolerance

\* C11 as stated: for every pi in (0,1), n > 0 and P > 0, feeding the premium
\* computed for P back as a fixed premium succeeds and reproduces P (within
\* the rounding of the arithmetic).
C11_RoundTripAnyConfidence == RoundTripDone => RoundTripReproduces

\* C11 amended: the round trip succeeds and reproduces P within the rounding
\* of the arithmetic whenever the computed k is not 0.
C11_RoundTripNonzeroK ==
  (RoundTripDone /\ ~IsZero(est.k)) => RoundTripReproduces

\* A round trip through a premium that differs from the payout has completed.
C11_Witness ==
  /\ RoundTripDone
  /\ ~IsZero(est.k)
  /\ ~est2.raised
  /\ est.P0 # args.P
  /\ est2.P0 = est.P0

-----------------------------------------------------------------------------
(* Further properties of the pool, checked under Spec *)

\* The number of calls of op made so far.
Count(op) == Cardinality({i \in 1..Len(hist) : hist[i] = op})

OnlyIssued == \A i \in 1..Len(hist) : hist[i] = "issue"

\* x == y as Python compares floats: false whenever a NaN is involved.
FEq(x, y) ==
  /\ ~IsNaN(x) /\ ~IsNaN(y)
  /\ IF IsFinite(x) /\ IsFinite(y) THEN x.v = y.v ELSE x = y

\* The spec's Active state: no insolvency so far, the capital a number >= 0.
Active == ~insolvent /\ FGe(cap, Zero)

\* C12: for a pool with positive seed, after N >= 1 issue() calls and no
\* other call, issued = N, n = N and cap > seed.
C12_IssuesAccumulate ==
  (Positive(seed) /\ hist # <<>> /\ OnlyIssued)
    => (issued = Len(hist) /\ n = Len(hist) /\ FLt(seed, cap))

\* Three policies have been issued in a row on a seeded pool.
C12_Witness ==
  Positive(seed) /\ OnlyIssued /\ Len(hist) >= 3 /\ raised = "none"

\* C13: across a call that leaves the pool Active, issued, claims and
\* inbound do not decrease.
C13_CountersMonotone ==
  [][(Active /\ Active') => /\ issued' >= issued
                            /\ claims' >= claims
                            /\ FGe(inbound', inbound)]_vars

\* An Active pool that has collected premiums and paid a claim.
C13_Witness ==
  Active /\ ~misused /\ claims >= 1 /\ Positive(inbound) /\ issued >= 2

\* C14: when claim() and expire() are only called with n > 0, n >= 0 after
\* every call and n = issued - (calls of claim() + calls of expire()).
C14_ActiveCount ==
  ~misused => (n >= 0 /\ n = issued - (Count("claim") + Count("expire")))

\* Policies have been issued, claimed and expired, in keeping with n > 0.
C14_Witness ==
  ~misused /\ Count("claim") >= 1 /\ Count("expire") >= 1 /\ n >= 1

\* C15: expire() with n > 0 (on an Active pool used in keeping with the
\* preconditions) raises nothing, decrements n, sets L to n*P and leaves cap,
\* issued, claims and inbound unchanged.
C15_ExpireSetsLiability ==
  [][(ExpireStep /\ n > 0 /\ Active /\ ~misused)
       => /\ raised' = "none"
          /\ n' = n - 1
          /\ L' = FMul(FromInt(n'), P)
          /\ UNCHANGED <<cap, issued, claims, inbound>>]_vars

\* C16: in the record of an issue(), requiredK is the k of the estimate that
\* gave the premium (the one for population cap/P, cap before the call), and
\* excessCapital is cap - requiredK*P.
C16_RecordOfOneEstimate ==
  [][(IssueStep /\ Active /\ Positive(cap) /\ raised' = "none")
       => /\ rec'.premium = PremiumForCapacity
          /\ rec'.requiredK = Estimator(p, FDiv(cap, P), PiDefault, P, None).k
          /\ rec'.excess = FSub(cap', FMul(rec'.requiredK, P))]_vars

\* C17: in every reachable state cap == seed + inbound - claims*P.
C17_CapitalConserved ==
  FEq(cap, FSub(FAdd(seed, inbound), FMul(FromInt(claims), P)))

\* C18: in every reachable state (in keeping with the preconditions) L >= n*P,
\* and L == n*P right after every issue().
C18_LiabilityNotUnderstated ==
  ~misused => /\ FGe(L, FMul(FromInt(n), P))
              /\ (hist # <<>> /\ Last(hist) = "issue") => FEq(L, FMul(FromInt(n), P))

\* C19: when claim() raises the insolvency error, n is already decremented,
\* claims incremented and cap reduced by P to below 0, while issued and
\* inbound are as before.
C19_FailedClaimNotRolledBack ==
  [][(ClaimStep /\ raised' = "insolvent")
       => /\ n' = n - 1
          /\ claims' = claims + 1
          /\ cap' = FSub(cap, P)
          /\ FLt(cap', Zero)
          /\ UNCHANGED <<issued, inbound>>]_vars

\* The last policy of a pool was claimed and the claim raised.
C19_Witness ==
  /\ hist # <<>> /\ Last(hist) = "claim" /\ raised = "insolvent"
  /\ ~misused /\ n = 0 /\ claims = issued

====
